---- MODULE Spec2Model ----
(***************************************************************************)
(* Model of modules/@angular/compiler/src/i18n/shared.ts: the partitioning *)
(* of sibling nodes into i18n parts, the meaning/description parser, the   *)
(* attribute message extraction, the placeholder name deduplication and    *)
(* the stringification of nodes into a message body.                       *)
(*                                                                         *)
(* Strings of the program are sequences of lexemes.  Marker texts, comment *)
(* values and attribute names are sequences of one-character strings, so   *)
(* that startsWith, replace, trim, split and substring work on characters. *)
(* Text values and message bodies are sequences whose lexemes are either   *)
(* one literal character, one whole interpolation "{{expr}}" or one whole  *)
(* placeholder tag; concatenation of strings is \o of the sequences.       *)
(*                                                                         *)
(* null is encoded per type, since TLC compares values of one type only:   *)
(* NullStr for a string, NullNode for a node, NullNodes for a node array.  *)
(***************************************************************************)
EXTENDS Integers, Sequences, FiniteSets, TLC

VARIABLES
  \* partition(nodes, errors, implicitTags)
  nodes, implicitTags, i, parts, errors, pc,
  \* meaning(i18n) / description(i18n)
  i18nText, meaningRes, descriptionRes, metaPc,
  \* dedupePhName(usedNames, name): the registry, the names fed, the names returned
  usedNames, fed, out,
  \* stringifyNodes(nodes): the input, the result, the result of the call before
  sNodes, sResult, sPrev, sPc,
  \* messageFromI18nAttribute(p, i18nAttr): the element, the marker attribute,
  \* the outcome
  attrEl, attrI18n, attrRes, attrPc

partitionVars == <<nodes, implicitTags, i, parts, errors, pc>>
metaVars == <<i18nText, meaningRes, descriptionRes, metaPc>>
dedupeVars == <<usedNames, fed, out>>
stringifyVars == <<sNodes, sResult, sPrev, sPc>>
attrVars == <<attrEl, attrI18n, attrRes, attrPc>>
vars == <<partitionVars, metaVars, dedupeVars, stringifyVars, attrVars>>

----------------------------------------------------------------------------
(* Bounds of the model *)

\* longest sibling sequence handed to partition
MaxNodes == 4
\* longest marker text handed to meaning / description
MaxMarkerLen == 5

----------------------------------------------------------------------------
(* Values *)

NullStr == <<"null">>

NullNode ==
  [kind |-> "null", span |-> 0, name |-> "", attrs |-> <<>>,
   value |-> NullStr, children |-> <<>>]

NullNodes == <<NullNode>>

NullAttr == [name |-> NullStr, value |-> NullStr, span |-> 0]

\* isPresent, on a string and on an attribute
isPresent(x) == x # NullStr

isPresentAttr(a) == a # NullAttr

I18N_ATTR == <<"i", "1", "8", "n">>

I18N_ATTR_PREFIX == <<"i", "1", "8", "n", "-">>

\* String.prototype.startsWith
StartsWith(s, prefix) ==
  Len(s) >= Len(prefix) /\ SubSeq(s, 1, Len(prefix)) = prefix

IsSpace(c) == c = " "

\* String.prototype.trim
RECURSIVE TrimLeft(_)
TrimLeft(s) ==
  IF s # <<>> /\ IsSpace(Head(s)) THEN TrimLeft(Tail(s)) ELSE s

RECURSIVE TrimRight(_)
TrimRight(s) ==
  IF s # <<>> /\ IsSpace(s[Len(s)]) THEN TrimRight(SubSeq(s, 1, Len(s) - 1)) ELSE s

Trim(s) == TrimRight(TrimLeft(s))

\* value.replace(/^i18n:?/, '')
ReplaceI18nPrefix(s) ==
  IF StartsWith(s, I18N_ATTR)
    THEN LET rest == SubSeq(s, Len(I18N_ATTR) + 1, Len(s))
         IN IF rest # <<>> /\ Head(rest) = ":" THEN Tail(rest) ELSE rest
    ELSE s

I18nError(span, msg) == [span |-> span, msg |-> msg]

Message(content, meaningOf, descriptionOf) ==
  [content |-> content, meaning |-> meaningOf, description |-> descriptionOf]

\* the outcome of a call that returns a Message or throws an I18nError
NoOutcome ==
  [thrown |-> FALSE, returned |-> FALSE,
   error |-> I18nError(0, <<>>), message |-> Message(NullStr, NullStr, NullStr)]

Part(rootElement, rootTextNode, children, i18n, hasI18n) ==
  [rootElement |-> rootElement, rootTextNode |-> rootTextNode,
   children |-> children, i18n |-> i18n, hasI18n |-> hasI18n]

----------------------------------------------------------------------------
(* partition *)

\* _isOpeningComment without the startsWith test
_isOpeningComment_anyComment(n) == n.kind = "Comment" /\ isPresent(n.value)

_isOpeningComment(n) ==
  n.kind = "Comment" /\ isPresent(n.value) /\ StartsWith(n.value, I18N_ATTR)

\* _isClosingComment that accepts every comment ending in i18n
_isClosingComment_endsWith(n) ==
  /\ n.kind = "Comment" /\ isPresent(n.value)
  /\ Len(n.value) >= 4
  /\ SubSeq(n.value, Len(n.value) - 3, Len(n.value)) = I18N_ATTR

_isClosingComment(n) ==
  n.kind = "Comment" /\ isPresent(n.value) /\ n.value = <<"/", "i", "1", "8", "n">>

\* the loop of _findI18nAttr from index k on
RECURSIVE FindI18nFrom(_, _)
FindI18nFrom(attrs, k) ==
  IF k > Len(attrs) THEN NullAttr
  ELSE IF attrs[k].name = I18N_ATTR THEN attrs[k]
  ELSE FindI18nFrom(attrs, k + 1)

_findI18nAttr(p) == FindI18nFrom(p.attrs, 1)

\* implicitTags.indexOf(name) > -1
IndexOfTag(tags, name) == \E k \in 1..Len(tags) : tags[k] = name

\* while (++i < nodes.length && !_isClosingComment(nodes[i])): the index the
\* inner loop stops at, starting from j (1-based; Len + 1 is nodes.length)
RECURSIVE ScanToClosing(_, _)
ScanToClosing(ns, j) ==
  IF j <= Len(ns) /\ ~_isClosingComment(ns[j]) THEN ScanToClosing(ns, j + 1) ELSE j

\* msgNodes after the inner loop that started behind index k and stopped at j
MsgNodes(ns, k, j) == SubSeq(ns, k + 1, j - 1)

\* The shapes a sibling sequence is drawn from; the source span of a node
\* is its position in the sequence.
CommentValues ==
  { <<"i", "1", "8", "n">>,
    <<"i", "1", "8", "n", ":", " ", "m", "|", "d", " ">>,
    <<"/", "i", "1", "8", "n">>,
    <<"x">> }

AttrLists ==
  { <<>>, << [name |-> I18N_ATTR, value |-> <<"m", "|", "d">>, span |-> 0] >> }

TextChild ==
  [kind |-> "Text", span |-> 0, name |-> "", attrs |-> <<>>,
   value |-> <<"c">>, children |-> <<>>]

Shapes ==
  { [kind |-> "Comment", span |-> 0, name |-> "", attrs |-> <<>>,
     value |-> v, children |-> <<>>] : v \in CommentValues }
  \cup
  { [kind |-> "Element", span |-> 0, name |-> t, attrs |-> a,
     value |-> NullStr, children |-> <<TextChild>>] :
       t \in {"div"}, a \in AttrLists }
  \cup
  { [kind |-> "Element", span |-> 0, name |-> "p", attrs |-> <<>>,
     value |-> NullStr, children |-> <<>>],
    [kind |-> "Text", span |-> 0, name |-> "", attrs |-> <<>>,
     value |-> <<"a">>, children |-> <<>>],
    [kind |-> "Expansion", span |-> 0, name |-> "", attrs |-> <<>>,
     value |-> NullStr, children |-> <<>>] }

SeqsUpTo(S, n) == UNION { [1..m -> S] : m \in 0..n }

Placed(shapes) == [k \in 1..Len(shapes) |-> [shapes[k] EXCEPT !.span = k]]

\* let parts = []; i = 0
InitPartition ==
  /\ \E shapes \in SeqsUpTo(Shapes, MaxNodes) : nodes = Placed(shapes)
  /\ implicitTags = <<"p">>
  /\ i = 1
  /\ parts = <<>>
  /\ errors = <<>>
  /\ pc = "loop"
  /\ i18nText = NullStr
  /\ meaningRes = NullStr
  /\ descriptionRes = NullStr
  /\ metaPc = {}
  /\ usedNames = <<>>
  /\ fed = <<>>
  /\ out = <<>>
  /\ sNodes = <<>>
  /\ sResult = <<>>
  /\ sPrev = <<>>
  /\ sPc = "idle"
  /\ attrEl = NullNode
  /\ attrI18n = NullAttr
  /\ attrRes = NoOutcome
  /\ attrPc = "idle"

\* the iteration on an opening comment without the break behind the error
PartitionComment_noBreak ==
  /\ pc = "loop" /\ i <= Len(nodes)
  /\ _isOpeningComment(nodes[i])
  /\ LET node == nodes[i]
         i18n == Trim(ReplaceI18nPrefix(node.value))
         j == ScanToClosing(nodes, i + 1)
     IN /\ errors' = IF j = Len(nodes) + 1
                       THEN Append(errors,
                                   I18nError(node.span, <<"Missing closing 'i18n' comment.">>))
                       ELSE errors
        /\ parts' = Append(parts,
                           Part(NullNode, NullNode, MsgNodes(nodes, i, j), i18n, TRUE))
        /\ i' = j + 1
        /\ UNCHANGED pc
  /\ UNCHANGED <<nodes, implicitTags, metaVars, dedupeVars, stringifyVars, attrVars>>

\* one iteration of the for loop on an opening comment
PartitionComment ==
  /\ pc = "loop" /\ i <= Len(nodes)
  /\ _isOpeningComment(nodes[i])
  /\ LET node == nodes[i]
         i18n == Trim(ReplaceI18nPrefix(node.value))
         j == ScanToClosing(nodes, i + 1)
     IN IF j = Len(nodes) + 1
          THEN /\ errors' = Append(errors,
                                   I18nError(node.span, <<"Missing closing 'i18n' comment.">>))
               /\ pc' = "done"
               /\ UNCHANGED <<i, parts>>
          ELSE /\ parts' = Append(parts,
                                  Part(NullNode, NullNode, MsgNodes(nodes, i, j), i18n, TRUE))
               /\ i' = j + 1
               /\ UNCHANGED <<errors, pc>>
  /\ UNCHANGED <<nodes, implicitTags, metaVars, dedupeVars, stringifyVars, attrVars>>

\* one iteration on an element
PartitionElement ==
  /\ pc = "loop" /\ i <= Len(nodes)
  /\ ~_isOpeningComment(nodes[i])
  /\ nodes[i].kind = "Element"
  /\ LET node == nodes[i]
         i18n == _findI18nAttr(node)
         hasI18n == isPresentAttr(i18n) \/ IndexOfTag(implicitTags, node.name)
     IN parts' = Append(parts,
                        Part(node, NullNode, node.children,
                             IF isPresentAttr(i18n) THEN i18n.value ELSE NullStr,
                             hasI18n))
  /\ i' = i + 1
  /\ UNCHANGED <<nodes, implicitTags, errors, pc, metaVars, dedupeVars, stringifyVars, attrVars>>

\* the iteration on a text node with the node as the children of its Part
PartitionText_ownChildren ==
  /\ pc = "loop" /\ i <= Len(nodes)
  /\ ~_isOpeningComment(nodes[i])
  /\ nodes[i].kind = "Text"
  /\ parts' = Append(parts, Part(NullNode, nodes[i], <<nodes[i]>>, NullStr, FALSE))
  /\ i' = i + 1
  /\ UNCHANGED <<nodes, implicitTags, errors, pc, metaVars, dedupeVars, stringifyVars, attrVars>>

\* one iteration on a text node
PartitionText ==
  /\ pc = "loop" /\ i <= Len(nodes)
  /\ ~_isOpeningComment(nodes[i])
  /\ nodes[i].kind = "Text"
  /\ parts' = Append(parts, Part(NullNode, nodes[i], NullNodes, NullStr, FALSE))
  /\ i' = i + 1
  /\ UNCHANGED <<nodes, implicitTags, errors, pc, metaVars, dedupeVars, stringifyVars, attrVars>>

\* one iteration on any other node
PartitionSkip ==
  /\ pc = "loop" /\ i <= Len(nodes)
  /\ ~_isOpeningComment(nodes[i])
  /\ nodes[i].kind \notin {"Element", "Text"}
  /\ i' = i + 1
  /\ UNCHANGED <<nodes, implicitTags, parts, errors, pc, metaVars, dedupeVars, stringifyVars, attrVars>>

\* the loop condition fails: return parts
PartitionReturn ==
  /\ pc = "loop" /\ i > Len(nodes)
  /\ pc' = "done"
  /\ UNCHANGED <<nodes, implicitTags, i, parts, errors, metaVars, dedupeVars, stringifyVars, attrVars>>

NextPartition ==
  \/ PartitionComment
  \/ PartitionElement
  \/ PartitionText
  \/ PartitionSkip
  \/ PartitionReturn

SpecPartition == InitPartition /\ [][NextPartition]_vars

----------------------------------------------------------------------------
(* Claims about partition.  Their notions are stated on the input sequence, *)
(* independently of the operators the actions use.                          *)

I18nKeyword == <<"i", "1", "8", "n">>

ClosingKeyword == <<"/", "i", "1", "8", "n">>

IsOpener(n) ==
  /\ n.kind = "Comment"
  /\ n.value # NullStr
  /\ Len(n.value) >= 4
  /\ \A k \in 1..4 : n.value[k] = I18nKeyword[k]

IsCloser(n) == n.kind = "Comment" /\ n.value = ClosingKeyword

CloserAfter(k) == \E j \in (k + 1)..Len(nodes) : IsCloser(nodes[j])

FirstCloserAfter(k) ==
  CHOOSE j \in (k + 1)..Len(nodes) :
    IsCloser(nodes[j]) /\ \A m \in (k + 1)..(j - 1) : ~IsCloser(nodes[m])

\* the opener's text behind the keyword and its optional colon, without the
\* white space around it
StrippedMarker(v) ==
  LET from == IF Len(v) >= 5 /\ v[5] = ":" THEN 6 ELSE 5
      solid == {k \in from..Len(v) : v[k] # " "}
      lo == CHOOSE k \in solid : \A m \in solid : k <= m
      hi == CHOOSE k \in solid : \A m \in solid : k >= m
  IN IF solid = {} THEN <<>> ELSE [k \in 1..(hi - lo + 1) |-> v[lo + k - 1]]

AtSibling == pc = "loop" /\ i <= Len(nodes)

\* C1: when partition reaches an opening i18n comment with no closing
\* '/i18n' comment behind it, it appends exactly one error, which references
\* the opener's source span, and stops: the parts returned are the parts
\* emitted before the opener, and [Comment("i18n"), Text, Text] gives one
\* error and zero parts.
C1_UnclosedOpener ==
  /\ [][ (AtSibling /\ IsOpener(nodes[i]) /\ ~CloserAfter(i)) =>
            /\ Len(errors') = Len(errors) + 1
            /\ SubSeq(errors', 1, Len(errors)) = errors
            /\ errors'[Len(errors')].span = nodes[i].span
            /\ parts' = parts
            /\ pc' = "done" ]_vars
  /\ [][ pc = "done" => (pc' = "done" /\ parts' = parts /\ errors' = errors) ]_vars
  /\ []( ( /\ pc = "done"
           /\ Len(nodes) = 3
           /\ nodes[1].kind = "Comment" /\ nodes[1].value = I18nKeyword
           /\ nodes[2].kind = "Text" /\ nodes[3].kind = "Text" )
         => (Len(errors) = 1 /\ errors[1].span = 1 /\ parts = <<>>) )

\* C1 witness: the scan stopped at an unclosed opener that had parts before
\* it and siblings behind it.
C1_Witness ==
  /\ pc = "done" /\ Len(errors) = 1 /\ parts # <<>>
  /\ errors[1].span < Len(nodes)
  /\ errors[1].span > 1

\* C2: an opening i18n comment that partition classifies and that a closing
\* comment follows yields exactly one Part: translatable, without rootElement
\* and rootTextNode, whose children are the siblings strictly between the
\* opener and the first closing comment behind it and whose marker text is
\* the opener's text without the keyword prefix; the scan resumes behind the
\* closer, so neither the interior nor the closer gets a Part of its own.
C2_CommentPart ==
  [][ (AtSibling /\ IsOpener(nodes[i]) /\ CloserAfter(i)) =>
        LET j == FirstCloserAfter(i)
        IN /\ parts' = Append(parts,
                              [rootElement |-> NullNode,
                               rootTextNode |-> NullNode,
                               children |-> [k \in 1..(j - i - 1) |-> nodes[i + k]],
                               i18n |-> StrippedMarker(nodes[i].value),
                               hasI18n |-> TRUE])
           /\ i' = j + 1
           /\ errors' = errors
           /\ pc' = "loop" ]_vars

\* C2 witness: a comment-bounded part with an opening comment and an element
\* in its interior, a marker text, and a sibling classified behind the closer.
C2_Witness ==
  /\ pc = "done" /\ errors = <<>> /\ Len(parts) = 2
  /\ parts[1].rootElement = NullNode /\ parts[1].rootTextNode = NullNode
  /\ parts[1].hasI18n /\ parts[1].i18n = <<"m", "|", "d">>
  /\ Len(parts[1].children) = 1 /\ parts[1].children[1].kind \in {"Comment", "Element"}
  /\ parts[2].rootElement # NullNode

RootedIndices == {k \in 1..Len(nodes) : nodes[k].kind \in {"Element", "Text"}}

Rank(k) == Cardinality({m \in RootedIndices : m <= k})

\* C3: for a sibling sequence without an opening i18n comment, partition
\* emits no error and returns one Part per Element or Text sibling, in sibling
\* order; every other node (a closing comment too) produces no Part.
C3_NoOpener ==
  (\A k \in 1..Len(nodes) : ~IsOpener(nodes[k])) =>
    /\ errors = <<>>
    /\ pc = "done" =>
         /\ Len(parts) = Cardinality(RootedIndices)
         /\ \A k \in RootedIndices :
              IF nodes[k].kind = "Element"
                THEN /\ parts[Rank(k)].rootElement = nodes[k]
                     /\ parts[Rank(k)].rootTextNode = NullNode
                ELSE /\ parts[Rank(k)].rootTextNode = nodes[k]
                     /\ parts[Rank(k)].rootElement = NullNode

\* C3 witness: a sequence without opener, with a closing comment, an
\* expansion, an element and a text, has been partitioned.
C3_Witness ==
  /\ pc = "done" /\ Len(nodes) = 4 /\ Len(parts) = 2
  /\ \A k \in 1..Len(nodes) : ~IsOpener(nodes[k])
  /\ \E k \in 1..Len(nodes) : IsCloser(nodes[k])
  /\ \E k \in 1..Len(nodes) : nodes[k].kind = "Expansion"
  /\ parts[1].rootTextNode # NullNode /\ parts[2].rootElement # NullNode

NeverBothRoots ==
  \A k \in 1..Len(parts) :
    ~(parts[k].rootElement # NullNode /\ parts[k].rootTextNode # NullNode)

\* C9 as stated: the Part of a bare Text sibling has that node as rootTextNode,
\* no rootElement, no marker text, translatable = false and the one text node
\* as its children; no Part has both rootElement and rootTextNode.
C9_Original ==
  /\ [][ (AtSibling /\ nodes[i].kind = "Text") =>
            parts' = Append(parts,
                            [rootElement |-> NullNode, rootTextNode |-> nodes[i],
                             children |-> <<nodes[i]>>, i18n |-> NullStr,
                             hasI18n |-> FALSE]) ]_vars
  /\ []NeverBothRoots

\* C9 amended: the Part of a bare Text sibling has that node as rootTextNode,
\* no rootElement, no marker text, translatable = false and no children
\* array (children is null); no Part has both rootElement and rootTextNode.
C9_TextPart ==
  /\ [][ (AtSibling /\ nodes[i].kind = "Text") =>
            parts' = Append(parts,
                            [rootElement |-> NullNode, rootTextNode |-> nodes[i],
                             children |-> NullNodes, i18n |-> NullStr,
                             hasI18n |-> FALSE]) ]_vars
  /\ []NeverBothRoots

\* C9 witness: a text part and an element part have been emitted.
C9_Witness ==
  /\ pc = "done"
  /\ \E k \in 1..Len(parts) : parts[k].rootTextNode # NullNode
  /\ \E k \in 1..Len(parts) : parts[k].rootElement # NullNode

----------------------------------------------------------------------------
(* meaning / description *)

\* the index of the first sep in s at or behind k, Len(s) + 1 if there is none
RECURSIVE IndexOfFrom(_, _, _)
IndexOfFrom(s, sep, k) ==
  IF k > Len(s) \/ s[k] = sep THEN k ELSE IndexOfFrom(s, sep, k + 1)

\* String.prototype.split(sep): every piece between two separators
RECURSIVE Split(_, _)
Split(s, sep) ==
  LET k == IndexOfFrom(s, sep, 1)
  IN IF k > Len(s) THEN <<s>>
     ELSE <<SubSeq(s, 1, k - 1)>> \o Split(SubSeq(s, k + 1, Len(s)), sep)

\* String.prototype.split(sep, limit): the first limit pieces of split(sep)
SplitLimit(s, sep, limit) ==
  LET all == Split(s, sep)
  IN SubSeq(all, 1, IF Len(all) < limit THEN Len(all) ELSE limit)

isBlank(x) == x = NullStr

meaning(i18n) ==
  IF isBlank(i18n) \/ i18n = <<>> THEN NullStr
  ELSE Split(i18n, "|")[1]

description(i18n) ==
  IF isBlank(i18n) \/ i18n = <<>> THEN NullStr
  ELSE LET pieces == SplitLimit(i18n, "|", 2)
       IN IF Len(pieces) > 1 THEN pieces[2] ELSE NullStr

MarkerChars == {"a", "b", "|"}

MarkerTexts == {NullStr} \cup SeqsUpTo(MarkerChars, MaxMarkerLen)

InitMeta ==
  /\ i18nText \in MarkerTexts
  /\ meaningRes = NullStr
  /\ descriptionRes = NullStr
  /\ metaPc = {}
  /\ usedNames = <<>>
  /\ fed = <<>>
  /\ out = <<>>
  /\ sNodes = <<>>
  /\ sResult = <<>>
  /\ sPrev = <<>>
  /\ sPc = "idle"
  /\ attrEl = NullNode
  /\ attrI18n = NullAttr
  /\ attrRes = NoOutcome
  /\ attrPc = "idle"
  /\ nodes = <<>>
  /\ implicitTags = <<>>
  /\ i = 1
  /\ parts = <<>>
  /\ errors = <<>>
  /\ pc = "idle"
  /\ usedNames = <<>>
  /\ fed = <<>>
  /\ out = <<>>
  /\ sNodes = <<>>
  /\ sResult = <<>>
  /\ sPrev = <<>>
  /\ sPc = "idle"
  /\ attrEl = NullNode
  /\ attrI18n = NullAttr
  /\ attrRes = NoOutcome
  /\ attrPc = "idle"

CallMeaning ==
  /\ "meaning" \notin metaPc
  /\ meaningRes' = meaning(i18nText)
  /\ metaPc' = metaPc \cup {"meaning"}
  /\ UNCHANGED <<i18nText, descriptionRes, partitionVars, dedupeVars, stringifyVars, attrVars>>

CallDescription ==
  /\ "description" \notin metaPc
  /\ descriptionRes' = description(i18nText)
  /\ metaPc' = metaPc \cup {"description"}
  /\ UNCHANGED <<i18nText, meaningRes, partitionVars, dedupeVars, stringifyVars, attrVars>>

NextMeta == CallMeaning \/ CallDescription

SpecMeta == InitMeta /\ [][NextMeta]_vars

Pipes(v) == {k \in 1..Len(v) : v[k] = "|"}

FirstPipe(v) == CHOOSE k \in Pipes(v) : \A m \in Pipes(v) : k <= m

\* C8: meaning and description are absent for an absent or empty marker
\* text; otherwise meaning is the text before the first '|' (the whole text
\* without '|') and description is everything behind the first '|' (absent
\* without '|'), a '|' inside the description being kept:
\* description("a|b|a") = "b|a".
C8_MeaningDescription ==
  LET v == i18nText
      absent == v = NullStr \/ v = <<>>
  IN /\ "meaning" \in metaPc =>
          meaningRes = IF absent THEN NullStr
                       ELSE IF Pipes(v) = {} THEN v
                       ELSE SubSeq(v, 1, FirstPipe(v) - 1)
     /\ "description" \in metaPc =>
          descriptionRes = IF absent \/ Pipes(v) = {} THEN NullStr
                           ELSE SubSeq(v, FirstPipe(v) + 1, Len(v))

----------------------------------------------------------------------------
(* dedupePhName *)

\* new Map<string, number>()
EmptyMap == [n \in {} |-> 0]

\* Map.prototype.set
MapSet(m, key, v) == [n \in DOMAIN m \cup {key} |-> IF n = key THEN v ELSE m[n]]

\* dedupePhName with the first repeat suffixed _0: set(name, 0) for a new name
dedupePhName_fromZero(names, name) ==
  IF name \in DOMAIN names
    THEN [usedNames |-> MapSet(names, name, names[name] + 1),
          res |-> name \o "_" \o ToString(names[name])]
    ELSE [usedNames |-> MapSet(names, name, 0), res |-> name]

\* dedupePhName that never suffixes
dedupePhName_noSuffix(names, name) ==
  IF name \in DOMAIN names
    THEN [usedNames |-> MapSet(names, name, names[name] + 1), res |-> name]
    ELSE [usedNames |-> MapSet(names, name, 1), res |-> name]

\* the registry after the call and the name returned
dedupePhName(names, name) ==
  IF name \in DOMAIN names
    THEN [usedNames |-> MapSet(names, name, names[name] + 1),
          res |-> name \o "_" \o ToString(names[name])]
    ELSE [usedNames |-> MapSet(names, name, 1), res |-> name]

\* longest sequence of names fed to one registry
MaxCalls == 4

FedNames == {"x", "y", "x_1"}

InitDedupe ==
  /\ usedNames = EmptyMap
  /\ fed = <<>>
  /\ out = <<>>
  /\ nodes = <<>>
  /\ implicitTags = <<>>
  /\ i = 1
  /\ parts = <<>>
  /\ errors = <<>>
  /\ pc = "idle"
  /\ i18nText = NullStr
  /\ meaningRes = NullStr
  /\ descriptionRes = NullStr
  /\ metaPc = {}
  /\ sNodes = <<>>
  /\ sResult = <<>>
  /\ sPrev = <<>>
  /\ sPc = "idle"
  /\ attrEl = NullNode
  /\ attrI18n = NullAttr
  /\ attrRes = NoOutcome
  /\ attrPc = "idle"

CallDedupePhName ==
  /\ Len(fed) < MaxCalls
  /\ \E name \in FedNames :
       LET r == dedupePhName(usedNames, name)
       IN /\ usedNames' = r.usedNames
          /\ out' = Append(out, r.res)
          /\ fed' = Append(fed, name)
  /\ UNCHANGED <<partitionVars, metaVars, stringifyVars, attrVars>>

NextDedupe == CallDedupePhName

SpecDedupe == InitDedupe /\ [][NextDedupe]_vars

TimesFed(name, upTo) == Cardinality({m \in 1..upTo : fed[m] = name})

\* C4: of the names fed in order to one initially empty registry, the first
\* occurrence of a name is returned unchanged and recorded with count 1, the
\* occurrence seen k >= 1 times before is returned as "<name>_<k>" and
\* recorded with count k + 1; ["x","x","y","x"] yields ["x","x_1","y","x_2"].
C4_Dedupe ==
  /\ Len(out) = Len(fed)
  /\ \A j \in 1..Len(fed) :
       LET k == TimesFed(fed[j], j - 1)
       IN out[j] = IF k = 0 THEN fed[j] ELSE fed[j] \o "_" \o ToString(k)
  /\ DOMAIN usedNames = {fed[j] : j \in 1..Len(fed)}
  /\ \A n \in DOMAIN usedNames : usedNames[n] = TimesFed(n, Len(fed))
  /\ fed = <<"x", "x", "y", "x">> => out = <<"x", "x_1", "y", "x_2">>

\* C4 witness: the names x, x, y, x have been fed.
C4_Witness ==
  /\ fed = <<"x", "x", "y", "x">>
  /\ out = <<"x", "x_1", "y", "x_2">>
  /\ usedNames["x"] = 3 /\ usedNames["y"] = 1

----------------------------------------------------------------------------
(* removeInterpolation *)

\* the lexeme of the interpolation of expression e in a text or attribute value
Interp(e) == "{{" \o e \o "}}"

\* the expressions whose source CUSTOM_PH_EXP matches, with the name captured
CustomPhNames == [e \in {"b //i18n(ph=\"x\")"} |-> "x"]

\* the expressions with nothing but white space
BlankExprs == {" "}

Exprs == {"a"} \cup DOMAIN CustomPhNames \cup BlankExprs

IsInterp(lexeme) == \E e \in Exprs : lexeme = Interp(e)

ExprOf(lexeme) == CHOOSE e \in Exprs : lexeme = Interp(e)

\* the literal pieces between the interpolations of input
RECURSIVE SplitStrings(_)
SplitStrings(input) ==
  LET at == {k \in 1..Len(input) : IsInterp(input[k])}
      k == CHOOSE m \in at : \A n \in at : m <= n
  IN IF at = {} THEN <<input>>
     ELSE <<SubSeq(input, 1, k - 1)>> \o SplitStrings(SubSeq(input, k + 1, Len(input)))

\* Parser.splitInterpolation: null without interpolation, an exception on a
\* blank expression, otherwise the literal pieces and the expressions
splitInterpolation(input) ==
  LET found == SelectSeq(input, IsInterp)
      exprs == [k \in 1..Len(found) |-> ExprOf(found[k])]
  IN IF found = <<>>
       THEN [status |-> "null", strings |-> <<>>, expressions |-> <<>>]
     ELSE IF \E k \in 1..Len(exprs) : exprs[k] \in BlankExprs
       THEN [status |-> "throw", strings |-> <<>>, expressions |-> <<>>]
     ELSE [status |-> "ok", strings |-> SplitStrings(input), expressions |-> exprs]

getPhNameFromBinding(input, index) ==
  IF input \in DOMAIN CustomPhNames THEN CustomPhNames[input] ELSE ToString(index)

\* `<ph name="${customPhName}"/>`
InlinePh(name) == "<ph name=\"" \o name \o "\"/>"

\* the for loop of removeInterpolation from its k-th round on (i = k - 1)
RECURSIVE RemoveLoop(_, _, _, _)
RemoveLoop(parsed, k, names, res) ==
  IF k > Len(parsed.strings) THEN res
  ELSE LET res1 == res \o parsed.strings[k]
       IN IF k # Len(parsed.strings)
            THEN LET customPhName == getPhNameFromBinding(parsed.expressions[k], k - 1)
                     d == dedupePhName(names, customPhName)
                 IN RemoveLoop(parsed, k + 1, d.usedNames, res1 \o <<InlinePh(d.res)>>)
            ELSE RemoveLoop(parsed, k + 1, names, res1)

removeInterpolation(value) ==
  LET parsed == splitInterpolation(value)
  IN IF parsed.status = "ok" THEN RemoveLoop(parsed, 1, EmptyMap, <<>>) ELSE value

----------------------------------------------------------------------------
(* stringifyNodes *)

\* `<ph name="e${name}">`, `<ph name="t${index}">`, `</ph>`
ElemPh(n) == "<ph name=\"e" \o ToString(n) \o "\">"

TextPh(n) == "<ph name=\"t" \o ToString(n) \o "\">"

ClosePh == "</ph>"

\* what a visit returns: a string or null, and the visitor's _index afterwards
Visited(str, index) == [out |-> str, isNull |-> FALSE, index |-> index]

VisitedNull(index) == [out |-> <<>>, isNull |-> TRUE, index |-> index]

RECURSIVE htmlVisitAll(_, _)

\* strs.filter(s => s.length > 0).join('')
RECURSIVE _join(_)
_join(strs) ==
  IF strs = <<>> THEN <<>>
  ELSE (IF Len(Head(strs)) > 0 THEN Head(strs) ELSE <<>>) \o _join(Tail(strs))

\* visitElement that numbers the element after its children
visitElement_afterChildren(ast, index) ==
  LET r == htmlVisitAll(ast.children, index)
      name == r.index
  IN Visited(<<ElemPh(name)>> \o _join(r.res) \o <<ClosePh>>, name + 1)

visitElement(ast, index) ==
  LET name == index
      r == htmlVisitAll(ast.children, index + 1)
  IN Visited(<<ElemPh(name)>> \o _join(r.res) \o <<ClosePh>>, r.index)

\* visitText that takes a number only for a text with interpolation
visitText_countIfChanged(ast, index) ==
  LET noInterpolation == removeInterpolation(ast.value)
  IN IF noInterpolation # ast.value
       THEN Visited(<<TextPh(index)>> \o noInterpolation \o <<ClosePh>>, index + 1)
       ELSE Visited(ast.value, index)

visitText(ast, index) ==
  LET noInterpolation == removeInterpolation(ast.value)
  IN IF noInterpolation # ast.value
       THEN Visited(<<TextPh(index)>> \o noInterpolation \o <<ClosePh>>, index + 1)
       ELSE Visited(ast.value, index + 1)

visitComment(ast, index) == Visited(<<>>, index)

visitExpansion(ast, index) == VisitedNull(index)

\* ast.visit(visitor, context)
Visit(ast, index) ==
  CASE ast.kind = "Element" -> visitElement(ast, index)
    [] ast.kind = "Text" -> visitText(ast, index)
    [] ast.kind = "Comment" -> visitComment(ast, index)
    [] OTHER -> visitExpansion(ast, index)

\* htmlVisitAll(visitor, asts): the results that are not null, in order, and
\* the visitor's _index afterwards
htmlVisitAll(asts, index) ==
  IF asts = <<>> THEN [res |-> <<>>, index |-> index]
  ELSE LET first == Visit(Head(asts), index)
           rest == htmlVisitAll(Tail(asts), first.index)
       IN [res |-> (IF first.isNull THEN <<>> ELSE <<first.out>>) \o rest.res,
           index |-> rest.index]

RECURSIVE JoinAll(_)
\* Array.prototype.join('')
JoinAll(strs) == IF strs = <<>> THEN <<>> ELSE Head(strs) \o JoinAll(Tail(strs))

\* a new visitor (_index = 0) visits the nodes
stringifyNodes(ns) == JoinAll(htmlVisitAll(ns, 0).res)

\* longest sequence of nodes handed to stringifyNodes
MaxTop == 2

TextNode(v) ==
  [kind |-> "Text", span |-> 0, name |-> "", attrs |-> <<>>,
   value |-> v, children |-> <<>>]

ElementNode(c) ==
  [kind |-> "Element", span |-> 0, name |-> "b", attrs |-> <<>>,
   value |-> NullStr, children |-> c]

CommentNode ==
  [kind |-> "Comment", span |-> 0, name |-> "", attrs |-> <<>>,
   value |-> <<"c">>, children |-> <<>>]

ExpansionNode ==
  [kind |-> "Expansion", span |-> 0, name |-> "", attrs |-> <<>>,
   value |-> NullStr, children |-> <<>>]

PlainText == TextNode(<<"a">>)

OneExprText == TextNode(<<"h", Interp("a")>>)

TextValues ==
  { <<"a">>,
    <<"h", Interp("a")>>,
    <<Interp("b //i18n(ph=\"x\")"), "-", Interp("b //i18n(ph=\"x\")")>>,
    <<Interp(" ")>> }

Leaves ==
  {TextNode(v) : v \in TextValues} \cup {CommentNode, ExpansionNode, ElementNode(<<>>)}

ChildLists ==
  {<<l>> : l \in Leaves}
  \cup
  { <<OneExprText, OneExprText>>,
    <<PlainText, ElementNode(<<>>)>>,
    <<ElementNode(<<PlainText>>)>>,
    <<ElementNode(<<ElementNode(<<>>)>>), OneExprText>> }

TopNodes == Leaves \cup {ElementNode(c) : c \in ChildLists}

InitStringify ==
  /\ sNodes \in SeqsUpTo(TopNodes, MaxTop)
  /\ sResult = <<>>
  /\ sPrev = <<>>
  /\ sPc = "start"
  /\ nodes = <<>>
  /\ implicitTags = <<>>
  /\ i = 1
  /\ parts = <<>>
  /\ errors = <<>>
  /\ pc = "idle"
  /\ i18nText = NullStr
  /\ meaningRes = NullStr
  /\ descriptionRes = NullStr
  /\ metaPc = {}
  /\ usedNames = <<>>
  /\ fed = <<>>
  /\ out = <<>>
  /\ attrEl = NullNode
  /\ attrI18n = NullAttr
  /\ attrRes = NoOutcome
  /\ attrPc = "idle"

\* the first call of stringifyNodes on the nodes
CallStringifyNodes ==
  /\ sPc = "start"
  /\ sResult' = stringifyNodes(sNodes)
  /\ sPc' = "once"
  /\ UNCHANGED <<sNodes, sPrev, partitionVars, metaVars, dedupeVars, attrVars>>

\* a second call on the same nodes
CallStringifyNodesAgain ==
  /\ sPc = "once"
  /\ sPrev' = sResult
  /\ sResult' = stringifyNodes(sNodes)
  /\ sPc' = "twice"
  /\ UNCHANGED <<sNodes, partitionVars, metaVars, dedupeVars, attrVars>>

NextStringify == CallStringifyNodes \/ CallStringifyNodesAgain

SpecStringify == InitStringify /\ [][NextStringify]_vars

----------------------------------------------------------------------------
(* Claims about stringifyNodes, stated on the input tree and on the lexemes *)
(* of the result.                                                           *)

\* the Element and Text nodes of a forest in document order (pre-order)
RECURSIVE Flatten(_)
Flatten(ns) ==
  IF ns = <<>> THEN <<>>
  ELSE LET n == Head(ns)
       IN (IF n.kind \in {"Element", "Text"} THEN <<n>> ELSE <<>>)
          \o (IF n.kind = "Element" THEN Flatten(n.children) ELSE <<>>)
          \o Flatten(Tail(ns))

HasInterp(v) == \E k \in 1..Len(v) : IsInterp(v[k])

\* the text's interpolations are replaced: it has some, and none is blank
Replaced(n) ==
  /\ n.kind = "Text"
  /\ HasInterp(n.value)
  /\ \A k \in 1..Len(n.value) : n.value[k] # Interp(" ")

\* the candidate placeholder names of the expressions of a text value
Candidates(v) ==
  LET found == SelectSeq(v, IsInterp)
  IN [k \in 1..Len(found) |->
        IF found[k] = Interp("b //i18n(ph=\"x\")") THEN "x" ELSE ToString(k - 1)]

\* the names after deduplication against one registry
Suffixed(cands) ==
  [k \in 1..Len(cands) |->
     LET prior == Cardinality({m \in 1..(k - 1) : cands[m] = cands[k]})
     IN IF prior = 0 THEN cands[k] ELSE cands[k] \o "_" \o ToString(prior)]

\* one registry per text node
RECURSIVE PerTextNames(_)
PerTextNames(flat) ==
  IF flat = <<>> THEN <<>>
  ELSE (IF Replaced(Head(flat)) THEN Suffixed(Candidates(Head(flat).value)) ELSE <<>>)
       \o PerTextNames(Tail(flat))

\* one registry for the whole traversal
RECURSIVE AllCandidates(_)
AllCandidates(flat) ==
  IF flat = <<>> THEN <<>>
  ELSE (IF Replaced(Head(flat)) THEN Candidates(Head(flat).value) ELSE <<>>)
       \o AllCandidates(Tail(flat))

SharedNames(flat) == Suffixed(AllCandidates(flat))

Literals == {"a", "h", "-", "c"}

IsOpenTag(lexeme) ==
  \E n \in 0..Len(sResult) : lexeme = ElemPh(n) \/ lexeme = TextPh(n)

IsElemTag(lexeme) == \E n \in 0..Len(sResult) : lexeme = ElemPh(n)

NumberOf(lexeme) ==
  CHOOSE n \in 0..Len(sResult) : lexeme = ElemPh(n) \/ lexeme = TextPh(n)

IsInlineTag(lexeme) ==
  /\ lexeme \notin Literals
  /\ ~IsInterp(lexeme)
  /\ lexeme # ClosePh
  /\ ~IsOpenTag(lexeme)

InlineTagsOf(names) == [k \in 1..Len(names) |-> InlinePh(names[k])]

\* C5 as stated: one placeholder name registry serves all text nodes of one
\* stringifyNodes call, so an expression whose candidate name was used by an
\* earlier text node of the same call gets a suffixed name; the registry is
\* not shared between two calls.
C5_Original ==
  sPc # "start" =>
    /\ SelectSeq(sResult, IsInlineTag) = InlineTagsOf(SharedNames(Flatten(sNodes)))
    /\ sPc = "twice" => sResult = sPrev

\* C5 amended: every text node of one stringifyNodes call gets a registry of
\* its own: a name is suffixed only against the earlier expressions of the
\* same text node, and two text nodes with the same candidate name both emit
\* it unsuffixed; no registry is shared between two calls.
C5_PerTextRegistry ==
  sPc # "start" =>
    /\ SelectSeq(sResult, IsInlineTag) = InlineTagsOf(PerTextNames(Flatten(sNodes)))
    /\ sPc = "twice" => sResult = sPrev

\* C5 witness: two text nodes with one expression each, both named "0".
C5_Witness ==
  /\ sPc = "twice"
  /\ sNodes = <<OneExprText, OneExprText>>
  /\ sResult = <<TextPh(0), "h", InlinePh("0"), ClosePh,
                 TextPh(1), "h", InlinePh("0"), ClosePh>>

\* the open tags of the nodes of flat from position k on: an element and a
\* text with replaced interpolations carry their position in document order
RECURSIVE PositionTags(_, _)
PositionTags(flat, k) ==
  IF k > Len(flat) THEN <<>>
  ELSE (IF flat[k].kind = "Element" THEN <<ElemPh(k - 1)>>
        ELSE IF Replaced(flat[k]) THEN <<TextPh(k - 1)>>
        ELSE <<>>)
       \o PositionTags(flat, k + 1)

\* str with the numbers (all below top) of its open tags raised by d
Renumbered(str, d, top) ==
  [k \in 1..Len(str) |->
     IF \E n \in 0..top : str[k] = ElemPh(n)
       THEN ElemPh((CHOOSE n \in 0..top : str[k] = ElemPh(n)) + d)
     ELSE IF \E n \in 0..top : str[k] = TextPh(n)
       THEN TextPh((CHOOSE n \in 0..top : str[k] = TextPh(n)) + d)
     ELSE str[k]]

\* the result for ns, had the k-th node been absent, with the raw text put
\* in its place and the placeholders behind it renumbered by d
WithTextAt(ns, k, d) ==
  LET before == SubSeq(ns, 1, k - 1)
      absent == stringifyNodes(before \o SubSeq(ns, k + 1, Len(ns)))
      cut == Len(stringifyNodes(before))
  IN SubSeq(absent, 1, cut) \o ns[k].value
       \o Renumbered(SubSeq(absent, cut + 1, Len(absent)), d, Len(absent))

PlainTextAt(k) == sNodes[k].kind = "Text" /\ ~HasInterp(sNodes[k].value)

\* C6 as stated: a text without interpolation is emitted as its raw value,
\* without a placeholder tag, and leaves the numbers of the placeholders
\* emitted later as they are without that text node.
C6_Original ==
  sPc # "start" =>
    \A k \in 1..Len(sNodes) : PlainTextAt(k) => sResult = WithTextAt(sNodes, k, 0)

\* C6 amended: a text without interpolation is emitted as its raw value,
\* without a placeholder tag, and takes one value of the traversal counter:
\* the placeholders emitted later are numbered one higher than without that
\* text node, every placeholder carrying the position of its node among the
\* Element and Text nodes in document order.
C6_PlainTextCounts ==
  sPc # "start" =>
    /\ \A k \in 1..Len(sNodes) : PlainTextAt(k) => sResult = WithTextAt(sNodes, k, 1)
    /\ SelectSeq(sResult, IsOpenTag) = PositionTags(Flatten(sNodes), 1)

\* C6 witness: [Text("a"), Element(no children)] numbers the element 1.
C6_Witness ==
  /\ sPc = "once"
  /\ sNodes = <<PlainText, ElementNode(<<>>)>>
  /\ sResult = <<"a", ElemPh(1), ClosePh>>

Opens(p, q) == Cardinality({r \in p..q : IsOpenTag(sResult[r])})

Closes(p, q) == Cardinality({r \in p..q : sResult[r] = ClosePh})

\* the close tag of the open tag at p
Match(p) ==
  CHOOSE q \in (p + 1)..Len(sResult) :
    /\ Opens(p, q) = Closes(p, q)
    /\ \A r \in (p + 1)..(q - 1) : Opens(p, r) # Closes(p, r)

\* the open tags inside the element whose open tag is at p
Inside(p) == {r \in (p + 1)..(Match(p) - 1) : IsOpenTag(sResult[r])}

\* C7 as stated: an element takes its number after its children have taken
\* theirs: every placeholder of a descendant carries a smaller number than
\* the element's own.
C7_Original ==
  sPc # "start" =>
    \A p \in 1..Len(sResult) :
      IsElemTag(sResult[p]) =>
        \A r \in Inside(p) : NumberOf(sResult[r]) < NumberOf(sResult[p])

\* C7 amended: an element takes its number before its children take theirs:
\* every placeholder of a descendant carries a larger number than the
\* element's own (an element with one empty element child yields
\* <ph name="e0"><ph name="e1"></ph></ph>), and the numbers grow along the
\* whole result, never starting again for a sibling or a level.
C7_ElementFirst ==
  sPc # "start" =>
    /\ \A p \in 1..Len(sResult) :
         IsElemTag(sResult[p]) =>
           \A r \in Inside(p) : NumberOf(sResult[r]) > NumberOf(sResult[p])
    /\ \A p, r \in 1..Len(sResult) :
         (p < r /\ IsOpenTag(sResult[p]) /\ IsOpenTag(sResult[r])) =>
           NumberOf(sResult[p]) < NumberOf(sResult[r])
    /\ sNodes = <<ElementNode(<<ElementNode(<<>>)>>)>> =>
         sResult = <<ElemPh(0), ElemPh(1), ClosePh, ClosePh>>

\* C7 witness: an element whose only child is an empty element.
C7_Witness ==
  /\ sPc = "once"
  /\ sNodes = <<ElementNode(<<ElementNode(<<>>)>>)>>
  /\ sResult = <<ElemPh(0), ElemPh(1), ClosePh, ClosePh>>

----------------------------------------------------------------------------
(* messageFromI18nAttribute / messageFromAttribute *)

messageFromAttribute(attr, meaningOf, descriptionOf) ==
  LET value == removeInterpolation(attr.value)
  IN Message(value, meaningOf, descriptionOf)

\* p.attrs.find(a => a.name == expectedName) from index k on, null if none
RECURSIVE FindAttrFrom(_, _, _)
FindAttrFrom(attrs, expectedName, k) ==
  IF k > Len(attrs) THEN NullAttr
  ELSE IF attrs[k].name = expectedName THEN attrs[k]
  ELSE FindAttrFrom(attrs, expectedName, k + 1)

Returned(message) ==
  [thrown |-> FALSE, returned |-> TRUE, error |-> NoOutcome.error, message |-> message]

Thrown(error) ==
  [thrown |-> TRUE, returned |-> FALSE, error |-> error, message |-> NoOutcome.message]

\* messageFromI18nAttribute that keeps the '-' of the prefix: substring(4)
messageFromI18nAttribute_keepsDash(p, i18nAttr) ==
  LET expectedName == SubSeq(i18nAttr.name, 5, Len(i18nAttr.name))
      attr == FindAttrFrom(p.attrs, expectedName, 1)
  IN IF attr # NullAttr
       THEN Returned(messageFromAttribute(attr, meaning(i18nAttr.value),
                                          description(i18nAttr.value)))
       ELSE Thrown(I18nError(p.span,
                             <<"Missing attribute '">> \o expectedName \o <<"'.">>))

messageFromI18nAttribute(p, i18nAttr) ==
  LET expectedName == SubSeq(i18nAttr.name, 6, Len(i18nAttr.name))
      attr == FindAttrFrom(p.attrs, expectedName, 1)
  IN IF attr # NullAttr
       THEN Returned(messageFromAttribute(attr, meaning(i18nAttr.value),
                                          description(i18nAttr.value)))
       ELSE Thrown(I18nError(p.span,
                             <<"Missing attribute '">> \o expectedName \o <<"'.">>))

\* most attributes of the element
MaxAttrs == 3

AttrShapes ==
  { [name |-> I18N_ATTR_PREFIX \o <<"t">>, value |-> <<"m", "|", "d">>, span |-> 0],
    [name |-> I18N_ATTR_PREFIX \o <<"u">>, value |-> <<>>, span |-> 0],
    [name |-> <<"t">>, value |-> <<"h", Interp("a"), Interp("a")>>, span |-> 0],
    [name |-> <<"t">>, value |-> <<"a">>, span |-> 0],
    [name |-> <<"u">>, value |-> <<Interp(" ")>>, span |-> 0] }

InitAttr ==
  /\ \E shapes \in SeqsUpTo(AttrShapes, MaxAttrs) :
       attrEl = [kind |-> "Element", span |-> 0, name |-> "div",
                 attrs |-> Placed(shapes), value |-> NullStr, children |-> <<>>]
  /\ \E k \in 1..Len(attrEl.attrs) :
       /\ StartsWith(attrEl.attrs[k].name, I18N_ATTR_PREFIX)
       /\ attrI18n = attrEl.attrs[k]
  /\ attrRes = NoOutcome
  /\ attrPc = "start"
  /\ nodes = <<>>
  /\ implicitTags = <<>>
  /\ i = 1
  /\ parts = <<>>
  /\ errors = <<>>
  /\ pc = "idle"
  /\ i18nText = NullStr
  /\ meaningRes = NullStr
  /\ descriptionRes = NullStr
  /\ metaPc = {}
  /\ usedNames = <<>>
  /\ fed = <<>>
  /\ out = <<>>
  /\ sNodes = <<>>
  /\ sResult = <<>>
  /\ sPrev = <<>>
  /\ sPc = "idle"

CallMessageFromI18nAttribute ==
  /\ attrPc = "start"
  /\ attrRes' = messageFromI18nAttribute(attrEl, attrI18n)
  /\ attrPc' = "done"
  /\ UNCHANGED <<attrEl, attrI18n, partitionVars, metaVars, dedupeVars, stringifyVars>>

NextAttr == CallMessageFromI18nAttribute

SpecAttr == InitAttr /\ [][NextAttr]_vars

\* the marker attribute's name behind the five characters of 'i18n-'
TargetName == [k \in 1..(Len(attrI18n.name) - 5) |-> attrI18n.name[k + 5]]

TargetHolders == {k \in 1..Len(attrEl.attrs) : attrEl.attrs[k].name = TargetName}

\* C10: messageFromI18nAttribute looks the marker attribute's name without
\* the 'i18n-' prefix up among the element's attributes by exact name; when
\* no attribute has it the call throws an I18nError with the element's source
\* span and returns no Message, else it returns a Message whose body is the
\* result of removeInterpolation on that attribute's value, without element
\* or text placeholder around it, and whose meaning and description come from
\* the marker attribute's value.
C10_AttributeMessage ==
  attrPc = "done" =>
    IF TargetHolders = {}
      THEN /\ attrRes.thrown /\ ~attrRes.returned
           /\ attrRes.error.span = attrEl.span
           /\ attrRes.message = NoOutcome.message
      ELSE /\ attrRes.returned /\ ~attrRes.thrown
           /\ \E k \in TargetHolders :
                attrRes.message.content = removeInterpolation(attrEl.attrs[k].value)
           /\ \A k \in 1..Len(attrRes.message.content) :
                attrRes.message.content[k] # ClosePh
           /\ attrRes.message.meaning = meaning(attrI18n.value)
           /\ attrRes.message.description = description(attrI18n.value)

\* C10 witness: the target attribute exists and its interpolations are replaced.
C10_Witness ==
  /\ attrPc = "done" /\ attrRes.returned
  /\ attrRes.message.content = <<"h", InlinePh("0"), InlinePh("1")>>
  /\ attrRes.message.meaning = <<"m">> /\ attrRes.message.description = <<"d">>

====
